---- MODULE Spec2Model ----
(***************************************************************************)
(* Model of src/App.py: the two OpenCV compositing routines                *)
(* add_thumbnail_overlay and create_thumbnail_intro, and the part of main  *)
(* that creates the output file, calls one of them and handles its result, *)
(* and extract_thumbnail_from_video as main calls it with the slider value. *)
(*                                                                         *)
(* A frame is a record; `written' is the sequence of frames handed to      *)
(* out.write, in call order.  Floating-point products whose integer part   *)
(* is taken with int() are computed exactly on rationals (size_ratio is    *)
(* ratioPct/100, fps is fpsNum/fpsDen); on the inputs enumerated here the  *)
(* IEEE-754 result and the exact result have the same integer part.        *)
(***************************************************************************)
EXTENDS Integers, Sequences, FiniteSets, TLC

\* ---------------------------------------------------------------- bounds
MaxFrames == 2
MaxDuration == 3
MaxIntroSec == 3
MaxTotalFrames == 5

\* ------------------------------------------------------------ input sets
VideoSizes == {<<1920, 1080>>, <<640, 480>>, <<100, 60>>, <<4, 4>>}
AssetSizes == {<<400, 300>>, <<400, 1200>>, <<1000, 10>>}
RatioPcts == {10, 20, 40, 100}
Positions == {"top-right", "top-left", "bottom-right", "bottom-left", "center"}
FrameRates == {<<2997, 100>>, <<30, 1>>, <<5, 2>>, <<1, 1>>}

\* st.slider(min_value=0.0, max_value=1.0, step=0.05): position * 20
FramePositions == 0..20

VARIABLES
    mode,               \* "overlay" | "intro" | "extract": routine main calls
    pc,                 \* position in the routine / in main
    width, height,      \* CAP_PROP_FRAME_WIDTH / HEIGHT of the video
    assetW, assetH,     \* thumbnail.shape[1], thumbnail.shape[0]
    ratioPct,           \* size_ratio * 100
    position,           \* anchor name
    duration_frames,    \* overlay duration in frames
    fpsNum, fpsDen,     \* CAP_PROP_FPS as a rational
    intro_duration_sec, \* intro duration in seconds
    frameCount,         \* number of frames the video file holds
    capOpened,          \* cap holds an open capture handle
    outOpened,          \* out holds an open writer handle
    thumb_width, thumb_height,
    x, y,
    frame_count,        \* loop counter of add_thumbnail_overlay
    readPos,            \* CAP_PROP_POS_FRAMES: index of the next frame
    intro_frames,       \* int(fps * intro_duration_sec)
    introLeft,          \* iterations left in `for _ in range(intro_frames)'
    written,            \* frames passed to out.write, in order
    result,             \* "none" until the routine returns, then "True"/"False"
    raised,             \* exception caught by the routine, or "none"
    fileExists,         \* a file exists at output_path
    frame_position,     \* slider value * 20 (position = frame_position / 20)
    frame_number,       \* int(total_frames * position)
    srcOpenFailed, sinkOpenFailed, decodeFailed, sinkWasOpened

vars == <<mode, pc, width, height, assetW, assetH, ratioPct, position,
          duration_frames, fpsNum, fpsDen, intro_duration_sec, frameCount,
          capOpened, outOpened, thumb_width, thumb_height, x, y, frame_count,
          readPos, intro_frames, introLeft, written, result, raised,
          fileExists, srcOpenFailed, sinkOpenFailed, decodeFailed,
          sinkWasOpened, frame_position, frame_number>>

inputs == <<mode, width, height, assetW, assetH, ratioPct, position,
            duration_frames, fpsNum, fpsDen, intro_duration_sec, frameCount,
            frame_position>>

\* ---------------------------------------------------------------- frames
SrcFrame(i) == [kind |-> "src", idx |-> i, overlay |-> FALSE, w |-> 0, h |-> 0]
BlendedFrame(i, tw, th) == [kind |-> "src", idx |-> i, overlay |-> TRUE, w |-> tw, h |-> th]
ThumbFrame(w, h) == [kind |-> "thumb", idx |-> 0, overlay |-> FALSE, w |-> w, h |-> h]

Max(a, b) == IF a >= b THEN a ELSE b
Min(a, b) == IF a <= b THEN a ELSE b

\* ------------------------------------------------- placement (lines 43-62)
\* thumb_width = int(width * size_ratio)
ThumbWidth(w, pct) == (w * pct) \div 100

\* thumb_height = int(thumb_width * thumbnail.shape[0] / thumbnail.shape[1])
ThumbHeight(tw, aw, ah) == (tw * ah) \div aw

AnchorXY_nomargin(pos, w, h, tw, th) ==
    CASE pos = "top-right"    -> <<w - tw, 20>>
      [] pos = "top-left"     -> <<20, 20>>
      [] pos = "bottom-right" -> <<w - tw, h - th - 20>>
      [] pos = "bottom-left"  -> <<20, h - th - 20>>
      [] OTHER                -> <<(w - tw) \div 2, (h - th) \div 2>>

\* the if/elif chain on position
AnchorXY(pos, w, h, tw, th) ==
    CASE pos = "top-right"    -> <<w - tw - 20, 20>>
      [] pos = "top-left"     -> <<20, 20>>
      [] pos = "bottom-right" -> <<w - tw - 20, h - th - 20>>
      [] pos = "bottom-left"  -> <<20, h - th - 20>>
      [] OTHER                -> <<(w - tw) \div 2, (h - th) \div 2>>

\* max(0, min(v, limit - size))
Clamp(v, limit, size) == Max(0, Min(v, limit - size))

\* shape of overlay_frame[y:y+th, x:x+tw] (numpy clips a slice to the array)
RoiW(px, w, tw) == Max(0, Min(w, px + tw) - Min(w, px))
RoiH(py, h, th) == Max(0, Min(h, py + th) - Min(h, py))

\* cv2.addWeighted(roi, ., thumbnail, ., 0) needs both arrays of one size
BlendFits(px, py, w, h, tw, th) == RoiW(px, w, tw) = tw /\ RoiH(py, h, th) = th

ShouldBlend_inclusive(fc, dur) == fc <= dur

\* frame_count < duration_frames
ShouldBlend(fc, dur) == fc < dur

\* ------------------------------------------------------------------ Init
Init ==
    /\ mode \in {"overlay", "intro", "extract"}
    /\ IF mode = "extract"
       THEN /\ width = 1920 /\ height = 1080
            /\ assetW = 400 /\ assetH = 300
            /\ frameCount \in 0..MaxTotalFrames
            /\ frame_position \in FramePositions
       ELSE /\ \E vs \in VideoSizes : width = vs[1] /\ height = vs[2]
            /\ \E as \in AssetSizes : assetW = as[1] /\ assetH = as[2]
            /\ frameCount \in 0..MaxFrames
            /\ frame_position = 10
    /\ IF mode = "overlay"
       THEN /\ ratioPct \in RatioPcts
            /\ position \in Positions
            /\ duration_frames \in 0..MaxDuration
            /\ fpsNum = 30 /\ fpsDen = 1
            /\ intro_duration_sec = 3
       ELSE IF mode = "intro"
       THEN /\ ratioPct = 20
            /\ position = "top-right"
            /\ duration_frames = 0
            /\ \E fr \in FrameRates : fpsNum = fr[1] /\ fpsDen = fr[2]
            /\ intro_duration_sec \in 1..MaxIntroSec
       ELSE /\ ratioPct = 20
            /\ position = "top-right"
            /\ duration_frames = 0
            /\ fpsNum = 30 /\ fpsDen = 1
            /\ intro_duration_sec = 3
    /\ pc = IF mode = "extract" THEN "ex_main" ELSE "main"
    /\ capOpened = FALSE /\ outOpened = FALSE
    /\ thumb_width = 0 /\ thumb_height = 0
    /\ x = 0 /\ y = 0
    /\ frame_count = 0 /\ readPos = 0
    /\ intro_frames = 0 /\ introLeft = 0
    /\ written = <<>>
    /\ result = "none" /\ raised = "none"
    /\ fileExists = FALSE
    /\ srcOpenFailed = FALSE /\ sinkOpenFailed = FALSE
    /\ decodeFailed = FALSE /\ sinkWasOpened = FALSE
    /\ frame_number = 0

\* ------------------------------------------------------- main, lines 344-366
\* NamedTemporaryFile(delete=False) creates the output file, then the
\* routine selected by thumbnail_mode is called.
MainCall ==
    /\ pc = "main"
    /\ fileExists' = TRUE
    /\ pc' = IF mode = "overlay" THEN "ov_open" ELSE "in_open"
    /\ UNCHANGED <<inputs, frame_number, capOpened, outOpened, thumb_width, thumb_height,
                   x, y, frame_count, readPos, intro_frames, introLeft,
                   written, result, raised, srcOpenFailed, sinkOpenFailed,
                   decodeFailed, sinkWasOpened>>

\* ------------------------------------- add_thumbnail_overlay, lines 24-103
\* cap = cv2.VideoCapture(video_path); if not cap.isOpened(): return False
OverlayOpenCapture ==
    /\ pc = "ov_open"
    /\ \E ok \in BOOLEAN :
         IF ok
         THEN /\ capOpened' = TRUE
              /\ pc' = "ov_load"
              /\ UNCHANGED <<result, srcOpenFailed>>
         ELSE /\ srcOpenFailed' = TRUE
              /\ result' = "False"
              /\ pc' = "returned"
              /\ UNCHANGED capOpened
    /\ UNCHANGED <<inputs, frame_number, outOpened, thumb_width, thumb_height, x, y,
                   frame_count, readPos, intro_frames, introLeft, written,
                   raised, fileExists, sinkOpenFailed, decodeFailed,
                   sinkWasOpened>>

\* thumbnail = cv2.imread(...); PIL fallback when imread gives None; the
\* fallback raises when the image is unreadable.
OverlayLoadThumbnail ==
    /\ pc = "ov_load"
    /\ \E how \in {"imread", "pil", "unreadable"} :
         IF how = "unreadable"
         THEN raised' = "PIL.UnidentifiedImageError" /\ pc' = "ov_except"
         ELSE raised' = raised /\ pc' = "ov_resize"
    /\ UNCHANGED <<inputs, frame_number, capOpened, outOpened, thumb_width, thumb_height,
                   x, y, frame_count, readPos, intro_frames, introLeft,
                   written, result, fileExists, srcOpenFailed,
                   sinkOpenFailed, decodeFailed, sinkWasOpened>>

\* thumb_width, thumb_height, cv2.resize: resize raises on an empty dsize
OverlayResize ==
    /\ pc = "ov_resize"
    /\ thumb_width' = ThumbWidth(width, ratioPct)
    /\ thumb_height' = ThumbHeight(thumb_width', assetW, assetH)
    /\ IF thumb_width' <= 0 \/ thumb_height' <= 0
       THEN raised' = "cv2.error" /\ pc' = "ov_except"
       ELSE raised' = raised /\ pc' = "ov_place"
    /\ UNCHANGED <<inputs, frame_number, capOpened, outOpened, x, y, frame_count, readPos,
                   intro_frames, introLeft, written, result, fileExists,
                   srcOpenFailed, sinkOpenFailed, decodeFailed,
                   sinkWasOpened>>

\* position chain and the two clamps
OverlayPlace ==
    /\ pc = "ov_place"
    /\ LET xy == AnchorXY(position, width, height, thumb_width, thumb_height)
       IN /\ x' = Clamp(xy[1], width, thumb_width)
          /\ y' = Clamp(xy[2], height, thumb_height)
    /\ pc' = "ov_sink"
    /\ UNCHANGED <<inputs, frame_number, capOpened, outOpened, thumb_width, thumb_height,
                   frame_count, readPos, intro_frames, introLeft, written,
                   result, raised, fileExists, srcOpenFailed, sinkOpenFailed,
                   decodeFailed, sinkWasOpened>>

\* out = cv2.VideoWriter(...): never raises; when it cannot open, the writer
\* stays closed and later writes are dropped.  frame_count = 0.
OverlayOpenWriter ==
    /\ pc = "ov_sink"
    /\ \E ok \in BOOLEAN :
         /\ outOpened' = ok
         /\ sinkWasOpened' = ok
         /\ sinkOpenFailed' = ~ok
    /\ frame_count' = 0
    /\ pc' = "ov_loop"
    /\ UNCHANGED <<inputs, frame_number, capOpened, thumb_width, thumb_height, x, y,
                   readPos, intro_frames, introLeft, written, result, raised,
                   fileExists, srcOpenFailed, decodeFailed>>

OverlayEmit_dropPassThrough(w, fc, dur, tw, th) ==
    IF ShouldBlend(fc, dur)
    THEN Append(w, BlendedFrame(fc, tw, th))
    ELSE w

\* the two out.write calls of the loop body
OverlayEmit(w, fc, dur, tw, th) ==
    IF ShouldBlend(fc, dur)
    THEN Append(w, BlendedFrame(fc, tw, th))
    ELSE Append(w, SrcFrame(fc))

\* one iteration of `while True': cap.read(), break on ret = False (end of
\* stream and a decode failure both give ret = False), blend or pass through.
OverlayReadFrame ==
    /\ pc = "ov_loop"
    /\ \E ret \in BOOLEAN :
         /\ ret => readPos < frameCount
         /\ IF ~ret
            THEN /\ decodeFailed' = (readPos < frameCount)
                 /\ pc' = "ov_release"
                 /\ UNCHANGED <<readPos, frame_count, written, raised>>
            ELSE /\ readPos' = readPos + 1
                 /\ UNCHANGED decodeFailed
                 /\ IF ShouldBlend(frame_count, duration_frames)
                       /\ ~BlendFits(x, y, width, height, thumb_width, thumb_height)
                    THEN /\ raised' = "cv2.error"
                         /\ pc' = "ov_except"
                         /\ UNCHANGED <<frame_count, written>>
                    ELSE /\ written' = OverlayEmit(written, frame_count,
                                                   duration_frames,
                                                   thumb_width, thumb_height)
                         /\ frame_count' = frame_count + 1
                         /\ pc' = "ov_loop"
                         /\ UNCHANGED raised
    /\ UNCHANGED <<inputs, frame_number, capOpened, outOpened, thumb_width, thumb_height,
                   x, y, intro_frames, introLeft, result, fileExists,
                   srcOpenFailed, sinkOpenFailed, sinkWasOpened>>

\* cap.release(); out.release(); return True
OverlayRelease ==
    /\ pc = "ov_release"
    /\ capOpened' = FALSE
    /\ outOpened' = FALSE
    /\ result' = "True"
    /\ pc' = "returned"
    /\ UNCHANGED <<inputs, frame_number, thumb_width, thumb_height, x, y, frame_count,
                   readPos, intro_frames, introLeft, written, raised,
                   fileExists, srcOpenFailed, sinkOpenFailed, decodeFailed,
                   sinkWasOpened>>

\* except Exception as e: st.error(...); return False
OverlayExcept ==
    /\ pc = "ov_except"
    /\ result' = "False"
    /\ pc' = "returned"
    /\ UNCHANGED <<inputs, frame_number, capOpened, outOpened, thumb_width, thumb_height,
                   x, y, frame_count, readPos, intro_frames, introLeft,
                   written, raised, fileExists, srcOpenFailed,
                   sinkOpenFailed, decodeFailed, sinkWasOpened>>

\* ------------------------------------ create_thumbnail_intro, lines 118-163
\* cap = cv2.VideoCapture(video_path); if not cap.isOpened(): return False
IntroOpenCapture ==
    /\ pc = "in_open"
    /\ \E ok \in BOOLEAN :
         IF ok
         THEN /\ capOpened' = TRUE
              /\ pc' = "in_load"
              /\ UNCHANGED <<result, srcOpenFailed>>
         ELSE /\ srcOpenFailed' = TRUE
              /\ result' = "False"
              /\ pc' = "returned"
              /\ UNCHANGED capOpened
    /\ UNCHANGED <<inputs, frame_number, outOpened, thumb_width, thumb_height, x, y,
                   frame_count, readPos, intro_frames, introLeft, written,
                   raised, fileExists, sinkOpenFailed, decodeFailed,
                   sinkWasOpened>>

\* thumbnail = cv2.imread(...), PIL fallback, which raises when unreadable
IntroLoadThumbnail ==
    /\ pc = "in_load"
    /\ \E how \in {"imread", "pil", "unreadable"} :
         IF how = "unreadable"
         THEN raised' = "PIL.UnidentifiedImageError" /\ pc' = "in_except"
         ELSE raised' = raised /\ pc' = "in_resize"
    /\ UNCHANGED <<inputs, frame_number, capOpened, outOpened, thumb_width, thumb_height,
                   x, y, frame_count, readPos, intro_frames, introLeft,
                   written, result, fileExists, srcOpenFailed,
                   sinkOpenFailed, decodeFailed, sinkWasOpened>>

\* thumbnail = cv2.resize(thumbnail, (width, height))
IntroResize ==
    /\ pc = "in_resize"
    /\ IF width <= 0 \/ height <= 0
       THEN /\ raised' = "cv2.error" /\ pc' = "in_except"
            /\ UNCHANGED <<thumb_width, thumb_height>>
       ELSE /\ thumb_width' = width /\ thumb_height' = height
            /\ raised' = raised /\ pc' = "in_sink"
    /\ UNCHANGED <<inputs, frame_number, capOpened, outOpened, x, y, frame_count, readPos,
                   intro_frames, introLeft, written, result, fileExists,
                   srcOpenFailed, sinkOpenFailed, decodeFailed,
                   sinkWasOpened>>

IntroFrameCount_nearest(num, den, sec) == (2 * num * sec + den) \div (2 * den)

\* intro_frames = int(fps * intro_duration_sec): int() truncates
IntroFrameCount(num, den, sec) == (num * sec) \div den

\* out = cv2.VideoWriter(...); intro_frames = int(fps * intro_duration_sec)
IntroOpenWriter ==
    /\ pc = "in_sink"
    /\ \E ok \in BOOLEAN :
         /\ outOpened' = ok
         /\ sinkWasOpened' = ok
         /\ sinkOpenFailed' = ~ok
    /\ intro_frames' = IntroFrameCount(fpsNum, fpsDen, intro_duration_sec)
    /\ introLeft' = intro_frames'
    /\ pc' = "in_intro"
    /\ UNCHANGED <<inputs, frame_number, capOpened, thumb_width, thumb_height, x, y,
                   frame_count, readPos, written, result, raised, fileExists,
                   srcOpenFailed, decodeFailed>>

IntroEmitBody_thumbnail(w, i, tw, th) == Append(w, ThumbFrame(tw, th))

\* out.write(frame) of the second loop
IntroEmitBody(w, i, tw, th) == Append(w, SrcFrame(i))

\* one iteration of `for _ in range(intro_frames): out.write(thumbnail)',
\* or, when the range is exhausted, cap.set(cv2.CAP_PROP_POS_FRAMES, 0)
IntroWriteIntro ==
    /\ pc = "in_intro"
    /\ IF introLeft > 0
       THEN /\ written' = Append(written, ThumbFrame(thumb_width, thumb_height))
            /\ introLeft' = introLeft - 1
            /\ UNCHANGED <<pc, readPos>>
       ELSE /\ readPos' = 0
            /\ pc' = "in_body"
            /\ UNCHANGED <<written, introLeft>>
    /\ UNCHANGED <<inputs, frame_number, capOpened, outOpened, thumb_width, thumb_height,
                   x, y, frame_count, intro_frames, result, raised,
                   fileExists, srcOpenFailed, sinkOpenFailed, decodeFailed,
                   sinkWasOpened>>

\* one iteration of the second `while True': cap.read(), break on
\* ret = False (end of stream or decode failure), else out.write(frame)
IntroReadFrame ==
    /\ pc = "in_body"
    /\ \E ret \in BOOLEAN :
         /\ ret => readPos < frameCount
         /\ IF ~ret
            THEN /\ decodeFailed' = (readPos < frameCount)
                 /\ pc' = "in_release"
                 /\ UNCHANGED <<readPos, written>>
            ELSE /\ written' = IntroEmitBody(written, readPos, thumb_width,
                                             thumb_height)
                 /\ readPos' = readPos + 1
                 /\ UNCHANGED <<pc, decodeFailed>>
    /\ UNCHANGED <<inputs, frame_number, capOpened, outOpened, thumb_width, thumb_height,
                   x, y, frame_count, intro_frames, introLeft, result, raised,
                   fileExists, srcOpenFailed, sinkOpenFailed, sinkWasOpened>>

\* cap.release(); out.release(); return True
IntroRelease ==
    /\ pc = "in_release"
    /\ capOpened' = FALSE
    /\ outOpened' = FALSE
    /\ result' = "True"
    /\ pc' = "returned"
    /\ UNCHANGED <<inputs, frame_number, thumb_width, thumb_height, x, y, frame_count,
                   readPos, intro_frames, introLeft, written, raised,
                   fileExists, srcOpenFailed, sinkOpenFailed, decodeFailed,
                   sinkWasOpened>>

\* except Exception as e: st.error(...); return False
IntroExcept ==
    /\ pc = "in_except"
    /\ result' = "False"
    /\ pc' = "returned"
    /\ UNCHANGED <<inputs, frame_number, capOpened, outOpened, thumb_width, thumb_height,
                   x, y, frame_count, readPos, intro_frames, introLeft,
                   written, raised, fileExists, srcOpenFailed,
                   sinkOpenFailed, decodeFailed, sinkWasOpened>>

\* ------------------------------------------------------- main, lines 370-399
\* if success and os.path.exists(output_path): ... os.unlink(output_path)
\* else: report the failure (the output file is left alone)
MainHandleResult ==
    /\ pc = "returned"
    /\ fileExists' = IF result = "True" /\ fileExists THEN FALSE ELSE fileExists
    /\ pc' = "finished"
    /\ UNCHANGED <<inputs, frame_number, capOpened, outOpened, thumb_width, thumb_height,
                   x, y, frame_count, readPos, intro_frames, introLeft,
                   written, result, raised, srcOpenFailed, sinkOpenFailed,
                   decodeFailed, sinkWasOpened>>

\* ------------------------------ extract_thumbnail_from_video, lines 167-187
\* main, lines 451-453: the button calls
\* extract_thumbnail_from_video(video_path, frame_position)
MainExtract ==
    /\ pc = "ex_main"
    /\ pc' = "ex_open"
    /\ UNCHANGED <<inputs, frame_number, capOpened, outOpened, thumb_width,
                   thumb_height, x, y, frame_count, readPos, intro_frames,
                   introLeft, written, result, raised, fileExists,
                   srcOpenFailed, sinkOpenFailed, decodeFailed,
                   sinkWasOpened>>

\* cap = cv2.VideoCapture(video_path); if not cap.isOpened(): return None
ExtractOpenCapture ==
    /\ pc = "ex_open"
    /\ \E ok \in BOOLEAN :
         IF ok
         THEN /\ capOpened' = TRUE
              /\ pc' = "ex_seek"
              /\ UNCHANGED <<result, srcOpenFailed>>
         ELSE /\ srcOpenFailed' = TRUE
              /\ result' = "None"
              /\ pc' = "ex_done"
              /\ UNCHANGED capOpened
    /\ UNCHANGED <<inputs, frame_number, outOpened, thumb_width,
                   thumb_height, x, y, frame_count, readPos, intro_frames,
                   introLeft, written, raised, fileExists, sinkOpenFailed,
                   decodeFailed, sinkWasOpened>>

\* frame_number = int(total_frames * position)
FrameNumber(total, pos20) == (total * pos20) \div 20

\* total_frames, frame_number, cap.set(cv2.CAP_PROP_POS_FRAMES, frame_number)
ExtractSeek ==
    /\ pc = "ex_seek"
    /\ frame_number' = FrameNumber(frameCount, frame_position)
    /\ readPos' = frame_number'
    /\ pc' = "ex_read"
    /\ UNCHANGED <<inputs, capOpened, outOpened, thumb_width, thumb_height,
                   x, y, frame_count, intro_frames, introLeft, written,
                   result, raised, fileExists, srcOpenFailed, sinkOpenFailed,
                   decodeFailed, sinkWasOpened>>

\* ret, frame = cap.read(); cap.release(); the image if ret, else None.
\* ret is False past the last frame and when the frame cannot be decoded.
ExtractRead ==
    /\ pc = "ex_read"
    /\ \E ret \in BOOLEAN :
         /\ ret => readPos < frameCount
         /\ decodeFailed' = (~ret /\ readPos < frameCount)
         /\ result' = IF ret THEN "Image" ELSE "None"
    /\ capOpened' = FALSE
    /\ pc' = "ex_done"
    /\ UNCHANGED <<inputs, frame_number, outOpened, thumb_width,
                   thumb_height, x, y, frame_count, readPos, intro_frames,
                   introLeft, written, raised, fileExists, srcOpenFailed,
                   sinkOpenFailed, sinkWasOpened>>

Next ==
    \/ MainCall
    \/ OverlayOpenCapture
    \/ OverlayLoadThumbnail
    \/ OverlayResize
    \/ OverlayPlace
    \/ OverlayOpenWriter
    \/ OverlayReadFrame
    \/ OverlayRelease
    \/ OverlayExcept
    \/ IntroOpenCapture
    \/ IntroLoadThumbnail
    \/ IntroResize
    \/ IntroOpenWriter
    \/ IntroWriteIntro
    \/ IntroReadFrame
    \/ IntroRelease
    \/ IntroExcept
    \/ MainHandleResult
    \/ MainExtract
    \/ ExtractOpenCapture
    \/ ExtractSeek
    \/ ExtractRead

Spec == Init /\ [][Next]_vars

\* ------------------------------------------------------------ properties
Returned == pc \in {"returned", "finished"}

\* C1: overlay mode, on success the number of frames handed to the writer
\* equals the number of frames read from the capture.
C1_OverlayFrameCountPreserved ==
    (mode = "overlay" /\ Returned /\ result = "True")
        => Len(written) = readPos

C1_Witness ==
    /\ mode = "overlay" /\ pc = "returned" /\ result = "True"
    /\ readPos = 2 /\ duration_frames = 1 /\ Len(written) = 2

\* C2 as stated: intro mode writes round(fps * seconds) + frameCount frames,
\* rounding to nearest.
C2_Original ==
    (mode = "intro" /\ Returned /\ result = "True" /\ ~decodeFailed)
        => Len(written) = ((2 * fpsNum * intro_duration_sec + fpsDen)
                              \div (2 * fpsDen)) + frameCount

\* C2 amended: intro mode writes n + frameCount frames where n is
\* fps * seconds truncated to an integer: n <= fps * seconds < n + 1.
C2_IntroFrameCountTruncated ==
    (mode = "intro" /\ Returned /\ result = "True" /\ ~decodeFailed)
        => LET n == Len(written) - frameCount
           IN /\ n * fpsDen <= fpsNum * intro_duration_sec
              /\ fpsNum * intro_duration_sec < (n + 1) * fpsDen

C2_Witness ==
    /\ mode = "intro" /\ pc = "returned" /\ result = "True" /\ ~decodeFailed
    /\ fpsNum = 2997 /\ fpsDen = 100 /\ intro_duration_sec = 3
    /\ frameCount = 2 /\ Len(written) = 91

\* C3: overlay mode, the frame emitted at index i is source frame i blended
\* when i < duration_frames and source frame i unmodified otherwise; on
\* success every frame read has been emitted.
C3_OverlayFramesByIndex ==
    mode = "overlay" =>
        /\ \A i \in 1..Len(written) :
             written[i] = IF i - 1 < duration_frames
                          THEN BlendedFrame(i - 1, thumb_width, thumb_height)
                          ELSE SrcFrame(i - 1)
        /\ (Returned /\ result = "True") => Len(written) = readPos
        /\ (Returned /\ result = "True" /\ duration_frames = 0)
              => written = [i \in 1..readPos |-> SrcFrame(i - 1)]
        /\ (Returned /\ result = "True" /\ duration_frames >= frameCount)
              => \A i \in 1..Len(written) : written[i].overlay

C3_Witness ==
    /\ mode = "overlay" /\ pc = "returned" /\ result = "True"
    /\ frameCount = 2 /\ duration_frames = 1
    /\ written = <<BlendedFrame(0, thumb_width, thumb_height), SrcFrame(1)>>

\* C4: after placement, 0 <= x <= width - thumb_width,
\* 0 <= y <= height - thumb_height, and the scaled thumbnail is no larger
\* than the video.
C4_PlacementWithinFrame ==
    pc = "ov_sink" =>
        /\ 0 <= x /\ x <= width - thumb_width
        /\ 0 <= y /\ y <= height - thumb_height
        /\ thumb_width <= width /\ thumb_height <= height

Example1920 ==
    /\ pc = "ov_sink"
    /\ width = 1920 /\ height = 1080
    /\ assetW = 400 /\ assetH = 300 /\ ratioPct = 20

\* C5 as stated: 1920x1080 video, 400x300 asset, ratio 0.2 gives 384x288,
\* origin (768, 396) for center and (1536, 20) for top-right.
C5_Original ==
    Example1920 =>
        /\ thumb_width = 384 /\ thumb_height = 288
        /\ (position = "center" => (x = 768 /\ y = 396))
        /\ (position = "top-right" => (x = 1536 /\ y = 20))

\* C5 amended: same example, origin (768, 396) for center and (1516, 20)
\* for top-right (1920 - 384 - 20 = 1516).
C5_PlacementExample ==
    Example1920 =>
        /\ thumb_width = 384 /\ thumb_height = 288
        /\ (position = "center" => (x = 768 /\ y = 396))
        /\ (position = "top-right" => (x = 1516 /\ y = 20))

C5_Witness == Example1920 /\ position = "top-right"

\* C6: when the routine returns after an error that happened with the writer
\* open, no file exists at the output path.
C6_NoPartialOutput ==
    (Returned /\ result = "False" /\ sinkWasOpened) => ~fileExists

\* C7: a failure to open the capture, a mid-stream decode failure or a
\* failure to open the writer makes the routine return failure.
C7_FailuresReturnFailure ==
    (Returned /\ (srcOpenFailed \/ decodeFailed \/ sinkOpenFailed))
        => result = "False"

\* C8: overlay mode, when the scaled thumbnail does not fit the video the
\* routine fails with OversizedAssetError and emits no blended frame.
C8_OversizedAssetRejected ==
    (mode = "overlay" /\ Returned
        /\ (thumb_width > width \/ thumb_height > height))
        => /\ result = "False"
           /\ raised = "OversizedAssetError"
           /\ \A i \in 1..Len(written) : ~written[i].overlay

SeqRank(p) ==
    CASE p = "in_intro" -> 1
      [] p = "in_body" -> 2
      [] p \in {"in_release", "in_except", "returned", "finished"} -> 3
      [] OTHER -> 0

C9_Order ==
    mode = "intro" =>
        /\ \A i \in 1..Len(written) :
             written[i] = IF i <= intro_frames
                          THEN ThumbFrame(width, height)
                          ELSE SrcFrame(i - intro_frames - 1)
        /\ pc = "in_intro" => Len(written) = intro_frames - introLeft
        /\ pc = "in_body" => Len(written) = intro_frames + readPos
        /\ (Returned /\ result = "True")
              => Len(written) = intro_frames + readPos

\* C9: intro mode emits intro_frames copies of the thumbnail resized to
\* (width, height), then the source frames from the first one, in order and
\* unmodified, and the sequencer never goes back from body to intro or from
\* done to an earlier phase.
C9_IntroThenBody ==
    /\ []C9_Order
    /\ [][mode = "intro" => SeqRank(pc') >= SeqRank(pc)]_vars

C9_Witness ==
    /\ mode = "intro" /\ pc = "returned" /\ result = "True"
    /\ intro_frames = 2 /\ frameCount = 2 /\ readPos = 2
    /\ Len(written) = 4

\* C10: when the routine returns, neither the capture nor the writer handle
\* is still held.
C10_HandlesReleased ==
    Returned => (~capOpened /\ ~outOpened)

\* C11: extracting from a video with total_frames >= 1 at any slider
\* position in [0.0, 1.0] seeks a valid index, 0 <= frame_number <=
\* total_frames - 1, and a frame that decodes is returned as the thumbnail.
C11_ExtractIndexValid ==
    (mode = "extract" /\ frameCount >= 1)
        => /\ pc \in {"ex_read", "ex_done"} /\ ~srcOpenFailed
              => (0 <= frame_number /\ frame_number <= frameCount - 1)
           /\ (pc = "ex_done" /\ ~srcOpenFailed /\ ~decodeFailed)
              => result = "Image"
====
